---- MODULE Spec2Model ----
(***************************************************************************)
(* A model of wa_http_server.js: the local HTTP gateway in front of one    *)
(* whatsapp-web.js session.  Three parts, each with its own specification: *)
(*   SpecNorm     normPhone as a function of its input                     *)
(*   Spec         the session event handlers and the HTTP handlers         *)
(*   SpecProfile  pickProfileDir over a filesystem that other processes    *)
(*                (browsers holding lock markers) change and whose         *)
(*                operations can fail                                      *)
(* JavaScript strings are sequences of one-character strings.              *)
(***************************************************************************)
EXTENDS Naturals, Sequences, FiniteSets

VARIABLES
    normIn,      \* normPhone: the argument raw
    normOut,     \* normPhone: the value returned (NoResult before the call)
    lastQRData,  \* line 155: the pending login code, or null
    hist,        \* history of the session events emitted so far
    httpOut,     \* the response written by the step just taken by a GET handler
    reqs,        \* the POST /send and POST /bulk requests in progress
    rateDelay,   \* RATE_DELAY_MS as configured (line 18), in clock ticks
    exitCode,    \* Running, or Exited(code) after process.exit(code)
    initState,   \* the initialize IIFE of lines 171-187
    teardown,    \* calls of client.initialize and client.destroy, and the signal received
    fs,          \* the filesystem under PROFILES_ROOT
    now,         \* wall clock, in ticks
    prof         \* the pickProfileDir call of each gateway process

vars == << normIn, normOut, lastQRData, hist, httpOut, reqs, rateDelay,
           exitCode, initState, teardown, fs, now, prof >>

normVars    == << normIn, normOut >>
gatewayVars == << lastQRData, hist, httpOut, reqs, rateDelay, exitCode, initState,
                 teardown >>
profileVars == << fs, now, prof >>

(***************************************************************************)
(* Bounds of the model.                                                    *)
(***************************************************************************)
MaxLen == 5        \* longest phone string given to normPhone in SpecNorm

(***************************************************************************)
(* JavaScript values: undefined, null and strings.                         *)
(***************************************************************************)
Undef == [t |-> "undefined", v |-> << >>]
Null == [t |-> "null", v |-> << >>]
Str(s) == [t |-> "string", v |-> s]

\* ToBoolean: undefined, null and "" are falsy, every other string is truthy.
Truthy(x) == x.t = "string" /\ x.v # << >>

\* String(x) / x.toString() of a string.
ToString(x) == x.v

Digits == {"0", "1", "2", "3", "4", "5", "6", "7", "8", "9"}
IsDigit(c) == c \in Digits

\* The characters phone strings are drawn from: two digits and two non-digits.
Alphabet == {"0", "1", "+", " "}

StringsUpTo(n) == UNION {[1..k -> Alphabet] : k \in 0..n}

(***************************************************************************)
(* normPhone, lines 194-199.                                               *)
(***************************************************************************)
\* s.replace(/\D+/g, ""): each maximal run of non-digits is replaced by "".
RECURSIVE ReplaceNonDigitRuns(_)
ReplaceNonDigitRuns(s) ==
    IF s = << >> THEN << >>
    ELSE IF IsDigit(Head(s)) THEN << Head(s) >> \o ReplaceNonDigitRuns(Tail(s))
    ELSE LET digitAt == {i \in 1..Len(s) : IsDigit(s[i])}
         IN  IF digitAt = {} THEN << >>
             ELSE LET j == CHOOSE i \in digitAt : \A k \in digitAt : i <= k
                  IN  ReplaceNonDigitRuns(SubSeq(s, j, Len(s)))

\* d.startsWith("00")
StartsWith00(d) == Len(d) >= 2 /\ d[1] = "0" /\ d[2] = "0"

\* d.slice(2)
Slice2(d) == SubSeq(d, 3, Len(d))

\* Mutant of normPhone: the "00" prefix is stripped as long as one is there.
RECURSIVE StripAll00(_)
StripAll00(d) == IF StartsWith00(d) THEN StripAll00(Slice2(d)) ELSE d

normPhoneStripsRepeatedly(raw) ==
    IF ~Truthy(raw) THEN << >> ELSE StripAll00(ReplaceNonDigitRuns(ToString(raw)))

normPhone(raw) ==
    IF ~Truthy(raw) THEN << >>
    ELSE LET d == ReplaceNonDigitRuns(ToString(raw))
         IN  IF StartsWith00(d) THEN Slice2(d) ELSE d

NoResult == << "no result" >>

PhoneInputs == {Undef} \cup {Str(s) : s \in StringsUpTo(MaxLen)}

NormCall ==
    /\ normOut = NoResult
    /\ normOut' = normPhone(normIn)
    /\ UNCHANGED << normIn, gatewayVars, profileVars >>

(***************************************************************************)
(* Session state and the client event handlers, lines 155-168.             *)
(***************************************************************************)
\* The login codes the session layer may issue: the empty one and two others.
QRCodes == {Str(<< >>), Str(<< "A" >>), Str(<< "B" >>)}

\* Mutant of OnQr: a login code already pending is kept.
OnQrKeepsFirst(qr) == IF Truthy(lastQRData) THEN lastQRData ELSE qr

\* client.on("qr"), lines 156-160: the new value of lastQRData.
OnQr(qr) == qr

\* Mutant of OnReady: the pending login code is kept.
OnReadyKeepsQr == lastQRData

\* client.on("ready"), lines 161-164: the new value of lastQRData.
OnReady == Null

\* Mutant of OnAuthFailure: the pending login code is cleared.
OnAuthFailureClears == Null

\* client.on("auth_failure"), line 165: logs only.
OnAuthFailure == lastQRData

\* client.on("disconnected"), lines 166-168: logs only.
OnDisconnected == lastQRData

Running == << >>
Exited(code) == << code >>
NoOut == [path |-> "none"]

HistInit ==
    [lastCode |-> Null, readyAfter |-> FALSE, everReady |-> FALSE,
     anyEvent |-> FALSE, allNonEmpty |-> TRUE, discAfter |-> FALSE]

\* The session layer emits a login code.
EmitQr(qr) ==
    /\ exitCode = Running
    /\ lastQRData' = OnQr(qr)
    /\ hist' = [hist EXCEPT !.lastCode = qr, !.readyAfter = FALSE, !.anyEvent = TRUE,
                            !.allNonEmpty = @ /\ qr.v # << >>, !.discAfter = FALSE]
    /\ httpOut' = NoOut
    /\ UNCHANGED << reqs, rateDelay, exitCode, initState, teardown, normVars, profileVars >>

\* The session layer reports the session ready.
EmitReady ==
    /\ exitCode = Running
    /\ lastQRData' = OnReady
    /\ hist' = [hist EXCEPT !.readyAfter = TRUE, !.everReady = TRUE, !.anyEvent = TRUE,
                            !.discAfter = FALSE]
    /\ httpOut' = NoOut
    /\ UNCHANGED << reqs, rateDelay, exitCode, initState, teardown, normVars, profileVars >>

\* The session layer reports an authentication failure.
EmitAuthFailure ==
    /\ exitCode = Running
    /\ lastQRData' = OnAuthFailure
    /\ hist' = [hist EXCEPT !.anyEvent = TRUE]
    /\ httpOut' = NoOut
    /\ UNCHANGED << reqs, rateDelay, exitCode, initState, teardown, normVars, profileVars >>

\* The session layer reports a disconnection.
EmitDisconnected ==
    /\ exitCode = Running
    /\ lastQRData' = OnDisconnected
    /\ hist' = [hist EXCEPT !.anyEvent = TRUE, !.discAfter = TRUE]
    /\ httpOut' = NoOut
    /\ UNCHANGED << reqs, rateDelay, exitCode, initState, teardown, normVars, profileVars >>

(***************************************************************************)
(* GET /status and GET /qr, lines 212-223.                                 *)
(***************************************************************************)
\* Mutant of StatusResponse: ready is reported while lastQRData is null.
StatusResponseReadyIfNull ==
    [status |-> 200,
     body |-> [ok |-> TRUE, needQr |-> Truthy(lastQRData), ready |-> lastQRData = Null]]

StatusResponse ==
    [status |-> 200,
     body |-> [ok |-> TRUE, needQr |-> Truthy(lastQRData), ready |-> ~Truthy(lastQRData)]]

QrResponse ==
    IF ~Truthy(lastQRData)
    THEN [status |-> 404, body |-> [ok |-> FALSE, error |-> Str(<< "no-qr" >>)]]
    ELSE [status |-> 200, body |-> [ok |-> TRUE, qr |-> lastQRData]]

GetStatus ==
    /\ exitCode = Running
    /\ httpOut' = [path |-> "/status", status |-> StatusResponse.status,
                   body |-> StatusResponse.body]
    /\ UNCHANGED << lastQRData, hist, reqs, rateDelay, exitCode, initState,
                    teardown, normVars, profileVars >>

GetQr ==
    /\ exitCode = Running
    /\ httpOut' = [path |-> "/qr", status |-> QrResponse.status, body |-> QrResponse.body]
    /\ UNCHANGED << lastQRData, hist, reqs, rateDelay, exitCode, initState,
                    teardown, normVars, profileVars >>

(***************************************************************************)
(* POST /send, lines 225-237.                                              *)
(***************************************************************************)
MaxItems == 2      \* longest items list given to POST /bulk

ReqIds == {1}

\* x || y
Or(x, y) == IF Truthy(x) THEN x ELSE y

\* `${phone}@c.us`
Dest(phone) == phone \o << "@", "c", ".", "u", "s" >>

\* What a rejected or throwing client.sendMessage may carry: an Error with a
\* message, and a thrown value without one (e.message is undefined).
SendErrors ==
    {[message |-> Str(<< "session not ready" >>), str |-> << "Error: session not ready" >>],
     [message |-> Undef, str |-> << "timeout" >>]}

\* e?.message || String(e)
ErrorText(e) == Or(e.message, Str(e.str))

Resolved == [ok |-> TRUE]
Rejected(e) == [ok |-> FALSE, err |-> e]
Outcomes == {Resolved} \cup {Rejected(e) : e \in SendErrors}

NoBody == [none |-> TRUE]

NewReq(kind, body) ==
    [kind |-> kind, pc |-> "start", body |-> body, i |-> 0, results |-> << >>,
     calls |-> << >>, outcomes |-> << >>, timer |-> 0, since |-> 0,
     status |-> 0, resp |-> NoBody]

IdleReq == [NewReq("none", NoBody) EXCEPT !.pc = "idle"]

\* res.status(code).json(body)
Respond(q, code, body) == [q EXCEPT !.pc = "responded", !.status = code, !.resp = body]

\* await client.sendMessage(dest, message): the call is made and the handler
\* suspends.  The call is recorded with the ticks since the batch's previous
\* send completed (gap), the number of sends of each request completed so
\* far (seen) and the requests that have a send in flight (busy), all three
\* as they are when the step that makes the call begins.
CallSend(q, dest, message) ==
    [q EXCEPT !.pc = "awaitSend",
              !.calls = Append(@, [dest |-> dest, message |-> message, gap |-> q.since,
                                   seen |-> [r \in DOMAIN reqs |-> Len(reqs[r].outcomes)],
                                   busy |-> {r \in DOMAIN reqs : reqs[r].pc = "awaitSend"}])]

\* Mutant of SendStart: only the phone is required.
SendStartPhoneOnly(body) ==
    LET q == NewReq("send", body)
        phone == normPhone(body.phone)
        message == ToString(Or(body.message, Str(<< >>)))
    IN  IF phone = << >>
        THEN Respond(q, 400, [ok |-> FALSE, error |-> Str(<< "phone and message required" >>)])
        ELSE CallSend(q, Dest(phone), message)

\* Mutant of SendStart: the phone is passed on as it came.
SendStartRawPhone(body) ==
    LET q == NewReq("send", body)
        phone == normPhone(body.phone)
        message == ToString(Or(body.message, Str(<< >>)))
    IN  IF phone = << >> \/ message = << >>
        THEN Respond(q, 400, [ok |-> FALSE, error |-> Str(<< "phone and message required" >>)])
        ELSE CallSend(q, Dest(ToString(body.phone)), message)

\* Lines 227-232: from the request's arrival to the 400 or to the await.
SendStart(body) ==
    LET q == NewReq("send", body)
        phone == normPhone(body.phone)
        message == ToString(Or(body.message, Str(<< >>)))
    IN  IF phone = << >> \/ message = << >>
        THEN Respond(q, 400, [ok |-> FALSE, error |-> Str(<< "phone and message required" >>)])
        ELSE CallSend(q, Dest(phone), message)

\* Mutant of SendSettle: the handler answers 200 whatever the send did.
SendSettleAlwaysOk(q, outcome) ==
    Respond([q EXCEPT !.outcomes = Append(@, outcome)], 200, [ok |-> TRUE])

\* Mutant of SendSettle: the rejection is not caught and no answer is written.
SendSettleNoCatch(q, outcome) ==
    LET q1 == [q EXCEPT !.outcomes = Append(@, outcome)]
    IN  IF outcome.ok
        THEN Respond(q1, 200, [ok |-> TRUE])
        ELSE [q1 EXCEPT !.pc = "failed"]

\* Lines 232-236: the awaited send resolves (200) or rejects (the catch, 500).
SendSettle(q, outcome) ==
    LET q1 == [q EXCEPT !.outcomes = Append(@, outcome)]
    IN  IF outcome.ok
        THEN Respond(q1, 200, [ok |-> TRUE])
        ELSE Respond(q1, 500, [ok |-> FALSE, error |-> ErrorText(outcome.err)])

SendPhones == {Undef, Str(<< >>), Str(<< "0", "0" >>), Str(<< "+", "1" >>)}
SendMessages == {Undef, Str(<< >>), Str(<< "hi" >>)}
SendBodies == [phone : SendPhones, message : SendMessages]

\* Mutant of PostSend: the request is taken only once the session is ready.
PostSendRequiresReady(r, body) ==
    /\ exitCode = Running
    /\ reqs[r].pc = "idle"
    /\ reqs' = [reqs EXCEPT ![r] =
                  IF initState = "initialized" /\ ~Truthy(lastQRData)
                  THEN SendStart(body)
                  ELSE Respond(NewReq("send", body), 503,
                               [ok |-> FALSE, error |-> Str(<< "not ready" >>)])]
    /\ httpOut' = NoOut
    /\ UNCHANGED << lastQRData, hist, rateDelay, exitCode, initState, teardown, normVars, profileVars >>

\* Mutant of PostSend: a request is taken only while no other request has a
\* send in flight or a pacing delay running.
PostSendSerialized(r, body) ==
    /\ exitCode = Running
    /\ reqs[r].pc = "idle"
    /\ \A o \in DOMAIN reqs : reqs[o].pc \notin {"awaitSend", "delay"}
    /\ reqs' = [reqs EXCEPT ![r] = SendStart(body)]
    /\ httpOut' = NoOut
    /\ UNCHANGED << lastQRData, hist, rateDelay, exitCode, initState, teardown, normVars, profileVars >>

PostSend(r, body) ==
    /\ exitCode = Running
    /\ reqs[r].pc = "idle"
    /\ reqs' = [reqs EXCEPT ![r] = SendStart(body)]
    /\ httpOut' = NoOut
    /\ UNCHANGED << lastQRData, hist, rateDelay, exitCode, initState, teardown, normVars, profileVars >>

(***************************************************************************)
(* POST /bulk, lines 239-262.                                              *)
(***************************************************************************)
Arr(seq) == [t |-> "array", v |-> seq]

\* Array.isArray(x)
IsArray(x) == x.t = "array"

\* Line 241
ItemsOf(body) == IF IsArray(body.items) THEN body.items.v ELSE << >>

\* Line 246: !phone || !message, for the phone and message of lines 244-245.
BadItem(it) ==
    normPhone(it.phone) = << >> \/ ToString(Or(it.message, Str(<< >>))) = << >>

\* Mutant of BulkCatch: the failed item leaves no entry in results.
BulkCatchDropsEntry(q, phone, e) == q

\* Lines 254-256: the inner catch records the failed item.
BulkCatch(q, phone, e) ==
    [q EXCEPT !.results =
        Append(@, [phone |-> Str(phone), ok |-> FALSE, error |-> ErrorText(e)])]

\* The for loop of lines 243-258 from item q.i on, up to the next await or to
\* the response.  A null item makes it.phone throw a TypeError, which the
\* outer catch of lines 259-261 answers with 500.
RECURSIVE BulkRun(_)
BulkRun(q) ==
    LET items == ItemsOf(q.body)
    IN  IF q.i > Len(items)
        THEN Respond(q, 200, [ok |-> TRUE, results |-> q.results])
        ELSE LET it == items[q.i]
             IN  IF it = Null
                 THEN Respond(q, 500,
                          [ok |-> FALSE,
                           error |-> Str(<< "Cannot read properties of null" >>)])
                 ELSE IF BadItem(it)
                 THEN BulkRun([q EXCEPT
                          !.results = Append(@, [phone |-> it.phone, ok |-> FALSE,
                                                 error |-> Str(<< "bad item" >>)]),
                          !.i = @ + 1])
                 ELSE CallSend(q, Dest(normPhone(it.phone)),
                               ToString(Or(it.message, Str(<< >>))))

\* Lines 240-242 and the loop up to its first await.
BulkStart(body) == BulkRun([NewReq("bulk", body) EXCEPT !.i = 1])

\* Mutant of BulkSettle: a failed send ends the batch.
BulkSettleStopsOnFailure(q, outcome) ==
    LET phone == normPhone(ItemsOf(q.body)[q.i].phone)
        q1 == [q EXCEPT !.outcomes = Append(@, outcome), !.since = 0]
    IN  IF outcome.ok
        THEN LET q2 == [q1 EXCEPT !.results =
                            Append(@, [phone |-> Str(phone), ok |-> TRUE])]
             IN  IF rateDelay > 0
                 THEN [q2 EXCEPT !.pc = "delay", !.timer = rateDelay]
                 ELSE BulkRun([q2 EXCEPT !.i = @ + 1])
        ELSE LET q2 == BulkCatch(q1, phone, outcome.err)
             IN  Respond(q2, 200, [ok |-> TRUE, results |-> q2.results])

\* Lines 251-256 after the await: a resolved send is recorded and, with a
\* positive RATE_DELAY_MS, followed by the timer of line 253; a rejected send
\* is recorded by the catch and the loop goes on at once.
BulkSettle(q, outcome) ==
    LET phone == normPhone(ItemsOf(q.body)[q.i].phone)
        q1 == [q EXCEPT !.outcomes = Append(@, outcome), !.since = 0]
    IN  IF outcome.ok
        THEN LET q2 == [q1 EXCEPT !.results =
                            Append(@, [phone |-> Str(phone), ok |-> TRUE])]
             IN  IF rateDelay > 0
                 THEN [q2 EXCEPT !.pc = "delay", !.timer = rateDelay]
                 ELSE BulkRun([q2 EXCEPT !.i = @ + 1])
        ELSE BulkRun([BulkCatch(q1, phone, outcome.err) EXCEPT !.i = @ + 1])

ItemA == [phone |-> Str(<< "+", "1" >>), message |-> Str(<< "a" >>)]
ItemB == [phone |-> Str(<< "0", "0", "1", "0" >>), message |-> Str(<< "b" >>)]
ItemNoPhone == [phone |-> Str(<< "0", "0" >>), message |-> Str(<< "b" >>)]
ItemNoMessage == [phone |-> Str(<< "1" >>), message |-> Undef]
ItemChoices == {ItemA, ItemB, ItemNoPhone, ItemNoMessage, Null}
BulkBodies ==
    {[items |-> Undef]}
        \cup {[items |-> Arr(s)] : s \in UNION {[1..k -> ItemChoices] : k \in 0..MaxItems}}

\* The batches taken where the session events and the other handlers run too:
\* no items, and valid and null items only.
FewBulkBodies ==
    {[items |-> Undef]}
        \cup {[items |-> Arr(s)] : s \in UNION {[1..k -> {ItemA, Null}] : k \in 0..MaxItems}}

PostBulk(r, body) ==
    /\ exitCode = Running
    /\ reqs[r].pc = "idle"
    /\ reqs' = [reqs EXCEPT ![r] = BulkStart(body)]
    /\ httpOut' = NoOut
    /\ UNCHANGED << lastQRData, hist, rateDelay, exitCode, initState, teardown, normVars, profileVars >>

\* The session layer settles the send that request r awaits.
SendSettled(r, outcome) ==
    /\ exitCode = Running
    /\ reqs[r].pc = "awaitSend"
    /\ reqs' = [reqs EXCEPT ![r] = IF reqs[r].kind = "send"
                                   THEN SendSettle(reqs[r], outcome)
                                   ELSE BulkSettle(reqs[r], outcome)]
    /\ httpOut' = NoOut
    /\ UNCHANGED << lastQRData, hist, rateDelay, exitCode, initState, teardown, normVars, profileVars >>

\* The setTimeout of line 253 expires and the loop goes on with the next item.
TimerFire(r) ==
    /\ exitCode = Running
    /\ reqs[r].pc = "delay"
    /\ reqs[r].timer = 0
    /\ reqs' = [reqs EXCEPT ![r] = BulkRun([reqs[r] EXCEPT !.i = @ + 1])]
    /\ httpOut' = NoOut
    /\ UNCHANGED << lastQRData, hist, rateDelay, exitCode, initState, teardown, normVars, profileVars >>

\* One clock tick passes: running timers count down, and each batch that
\* waits on its timer has one more tick since its last send completed.
Min(a, b) == IF a <= b THEN a ELSE b

TickReq(q) ==
    IF q.pc = "delay"
    THEN [q EXCEPT !.timer = IF @ > 0 THEN @ - 1 ELSE 0,
                   !.since = Min(@ + 1, rateDelay)]
    ELSE q

GatewayTick ==
    /\ exitCode = Running
    /\ reqs' = [r \in DOMAIN reqs |-> TickReq(reqs[r])]
    /\ reqs' # reqs
    /\ httpOut' = NoOut
    /\ UNCHANGED << lastQRData, hist, rateDelay, exitCode, initState, teardown, normVars, profileVars >>

\* The response has been written; the slot takes the next request.
Close(r) ==
    /\ reqs[r].pc = "responded"
    /\ reqs' = [reqs EXCEPT ![r] = IdleReq]
    /\ httpOut' = NoOut
    /\ UNCHANGED << lastQRData, hist, rateDelay, exitCode, initState, teardown, normVars, profileVars >>

(***************************************************************************)
(* The profile directory resolver, lines 26-51 and 88-103.                 *)
(***************************************************************************)
MaxClock == 3        \* the clock stops after this many ticks
MaxCalls == 2        \* pickProfileDir calls (process starts) per process
TicksPerSecond == 2  \* clock ticks in one second of the timestamp

Procs == {1}

\* Line 28
DEFAULT_PROFILE_NAME == "nour"

\* Line 46: the marker files, in the order removeSingletonLocks visits them.
LockNames == << "SingletonLock", "SingletonCookie" >>
LockSet == {LockNames[i] : i \in 1..Len(LockNames)}

\* Line 90: path.join(PROFILES_ROOT, DEFAULT_PROFILE_NAME)
BasePath == [root |-> "PROFILES_ROOT", name |-> DEFAULT_PROFILE_NAME, suffix |-> << >>]

\* Line 99: the ISO time with ":" replaced and the milliseconds cut off, which
\* is the time in whole seconds.
Stamp(t) == t \div TicksPerSecond

\* Line 100: path.join(PROFILES_ROOT, `${DEFAULT_PROFILE_NAME}_${stamp}`)
AltPath(stamp) ==
    [root |-> "PROFILES_ROOT", name |-> DEFAULT_PROFILE_NAME, suffix |-> << "_", stamp >>]

NoPath == [root |-> "", name |-> "", suffix |-> << >>]

\* The alternate directory p is there (the default one is not tracked: the
\* resolver never creates it).
AltExists(p) == Len(p.suffix) = 2 /\ p.suffix[2] \in fs.alts

\* Mutant of hasSingletonLocks: the test is negated.
hasSingletonLocksNegated(locks) == ~("SingletonLock" \in locks \/ "SingletonCookie" \in locks)

\* hasSingletonLocks(base), lines 35-42, over the markers present in base.
hasSingletonLocks(locks) == "SingletonLock" \in locks \/ "SingletonCookie" \in locks

ProfStart ==
    [pc |-> "start", ret |-> NoPath, seen1 |-> {}, seen2 |-> {}, removed |-> {},
     made |-> {}, i |-> 1, calls |-> 1, prev |-> [seen1 |-> LockSet, ret |-> NoPath]]

\* Line 89: ensureDir(PROFILES_ROOT).  mkdirSync creates the directory or
\* throws, and the catch of line 32 swallows the error.
PickEnsureRoot(p) ==
    /\ prof[p].pc = "start"
    /\ \/ fs' = [fs EXCEPT !.root = TRUE]
       \/ ~fs.root /\ fs' = fs
    /\ prof' = [prof EXCEPT ![p].pc = "check1"]
    /\ UNCHANGED << now, normVars, gatewayVars >>

\* Line 92: the default profile is returned when it holds no marker.
PickCheck1(p) ==
    /\ prof[p].pc = "check1"
    /\ prof' = [prof EXCEPT
                  ![p].seen1 = fs.locks,
                  ![p].pc = IF hasSingletonLocks(fs.locks) THEN "remove" ELSE "done",
                  ![p].ret = IF hasSingletonLocks(fs.locks) THEN NoPath ELSE BasePath,
                  ![p].i = 1]
    /\ UNCHANGED << fs, now, normVars, gatewayVars >>

\* Line 95, removeSingletonLocks(base), one marker per step (lines 46-49):
\* a marker that is there is removed, or rmSync throws and the catch of
\* line 50 ends the loop.
PickRemove(p) ==
    /\ prof[p].pc = "remove"
    /\ LET f == LockNames[prof[p].i]
           next == IF prof[p].i = Len(LockNames) THEN "check2" ELSE "remove"
       IN  \/ /\ f \notin fs.locks
              /\ fs' = fs
              /\ prof' = [prof EXCEPT ![p].pc = next, ![p].i = @ + 1]
           \/ /\ f \in fs.locks
              /\ fs' = [fs EXCEPT !.locks = @ \ {f}]
              /\ prof' = [prof EXCEPT ![p].pc = next, ![p].i = @ + 1,
                                      ![p].removed = @ \cup {f}]
           \/ /\ f \in fs.locks
              /\ fs' = fs
              /\ prof' = [prof EXCEPT ![p].pc = "check2"]
    /\ UNCHANGED << now, normVars, gatewayVars >>

\* Lines 96-102: the default profile is returned when the markers are gone;
\* otherwise the timestamped directory is made (ensureDir: mkdirSync creates
\* it with its parents, or throws and the error is swallowed) and returned.
PickCheck2(p) ==
    /\ prof[p].pc = "check2"
    /\ IF ~hasSingletonLocks(fs.locks)
       THEN /\ prof' = [prof EXCEPT ![p].seen2 = fs.locks, ![p].pc = "done",
                                    ![p].ret = BasePath]
            /\ fs' = fs
       ELSE LET stamp == Stamp(now)
            IN  /\ \/ fs' = [fs EXCEPT !.alts = @ \cup {stamp}, !.root = TRUE]
                   \/ stamp \notin fs.alts /\ fs' = fs
                /\ prof' = [prof EXCEPT ![p].seen2 = fs.locks, ![p].pc = "done",
                                        ![p].ret = AltPath(stamp),
                                        ![p].made = @ \cup (fs'.alts \ fs.alts)]
    /\ UNCHANGED << now, normVars, gatewayVars >>

\* The process is started again: pickProfileDir is called once more (line 123).
PickAgain(p) ==
    /\ prof[p].pc = "done"
    /\ prof[p].calls < MaxCalls
    /\ prof' = [prof EXCEPT ![p] = [ProfStart EXCEPT
                    !.calls = prof[p].calls + 1,
                    !.prev = [seen1 |-> prof[p].seen1, ret |-> prof[p].ret]]]
    /\ UNCHANGED << fs, now, normVars, gatewayVars >>

\* A browser of another instance puts a marker into the default profile.
BrowserCreatesLock(f) ==
    /\ f \notin fs.locks
    /\ fs' = [fs EXCEPT !.locks = @ \cup {f}, !.root = TRUE]
    /\ UNCHANGED << now, prof, normVars, gatewayVars >>

\* A browser of another instance exits and takes its marker away.
BrowserRemovesLock(f) ==
    /\ f \in fs.locks
    /\ fs' = [fs EXCEPT !.locks = @ \ {f}]
    /\ UNCHANGED << now, prof, normVars, gatewayVars >>

ClockTick ==
    /\ now < MaxClock
    /\ now' = now + 1
    /\ UNCHANGED << fs, prof, normVars, gatewayVars >>

\* The markers that filesystem f holds in the profile directory path (those of
\* an alternate directory are kept as pairs of its timestamp and the name).
LocksAt(f, path) ==
    IF path = BasePath
    THEN f.locks
    ELSE {m \in LockSet : << path.suffix[2], m >> \in f.altLocks}

\* Filesystem f with the markers of path set to locks.
WithLocksAt(f, path, locks) ==
    IF path = BasePath
    THEN [f EXCEPT !.locks = locks]
    ELSE [f EXCEPT !.altLocks =
             {e \in @ : e[1] # path.suffix[2]} \cup {<< path.suffix[2], m >> : m \in locks}]

\* Line 175, removeSingletonLocks(USER_DATA_DIR) in the initialize IIFE, one
\* marker per step as in PickRemove: the markers of the directory the
\* resolver returned are removed, or rmSync throws and the loop ends.
InitClean(p) ==
    /\ prof[p].pc \in {"done", "clean"}
    /\ LET i == IF prof[p].pc = "done" THEN 1 ELSE prof[p].i
           m == LockNames[i]
           here == LocksAt(fs, prof[p].ret)
           next == IF i = Len(LockNames) THEN "launch" ELSE "clean"
       IN  \/ /\ m \notin here
              /\ fs' = fs
              /\ prof' = [prof EXCEPT ![p].pc = next, ![p].i = i + 1]
           \/ /\ m \in here
              /\ fs' = WithLocksAt(fs, prof[p].ret, here \ {m})
              /\ prof' = [prof EXCEPT ![p].pc = next, ![p].i = i + 1]
           \/ /\ m \in here
              /\ fs' = fs
              /\ prof' = [prof EXCEPT ![p].pc = "launch"]
    /\ UNCHANGED << now, normVars, gatewayVars >>

\* Line 177, client.initialize(): the browser is started on the directory the
\* resolver returned.  A browser that finds a marker there does not start,
\* and the catch of lines 178-186 ends the process; otherwise it puts its
\* markers there and runs.  The start can also fail for other reasons.
Launch(p) ==
    /\ prof[p].pc = "launch"
    /\ \/ /\ LocksAt(fs, prof[p].ret) = {}
          /\ fs' = WithLocksAt(fs, prof[p].ret, LockSet)
          /\ prof' = [prof EXCEPT ![p].pc = "live"]
       \/ /\ fs' = fs
          /\ prof' = [prof EXCEPT ![p].pc = "exited"]
    /\ UNCHANGED << now, normVars, gatewayVars >>

\* The process and its browser end: the browser takes its markers away, or
\* is killed and leaves them.
ProcExit(p) ==
    /\ prof[p].pc = "live"
    /\ \/ fs' = WithLocksAt(fs, prof[p].ret, {})
       \/ fs' = fs
    /\ prof' = [prof EXCEPT ![p].pc = "exited"]
    /\ UNCHANGED << now, normVars, gatewayVars >>

(***************************************************************************)
(* Process start and end: the initialize IIFE (lines 171-187) and the      *)
(* signal handlers (lines 265-271).                                        *)
(***************************************************************************)
InitResolved ==
    /\ exitCode = Running
    /\ initState = "initializing"
    /\ initState' = "initialized"
    /\ httpOut' = NoOut
    /\ UNCHANGED << lastQRData, hist, reqs, rateDelay, exitCode, teardown, normVars, profileVars >>

\* The catch of lines 178-186: process.exit(1).
InitRejected ==
    /\ exitCode = Running
    /\ initState = "initializing"
    /\ initState' = "failed"
    /\ exitCode' = Exited(1)
    /\ httpOut' = NoOut
    /\ UNCHANGED << lastQRData, hist, reqs, rateDelay, teardown, normVars, profileVars >>

\* Mutant of Shutdown: an error thrown by client.destroy() is not caught and
\* ends the process as an uncaught exception.
ShutdownPropagatesThrow(sig, threw) ==
    /\ exitCode = Running
    /\ exitCode' = IF threw THEN Exited(1) ELSE Exited(0)
    /\ teardown' = [teardown EXCEPT !.signal = sig, !.destroyCalls = @ + 1,
                                    !.destroyThrew = threw]
    /\ httpOut' = NoOut
    /\ UNCHANGED << lastQRData, hist, reqs, rateDelay, initState, normVars, profileVars >>

\* shutdown(sig), lines 265-271: client.destroy() is called, returning or
\* throwing (the catch of line 267 swallows the error), then process.exit(0).
Shutdown(sig, threw) ==
    /\ exitCode = Running
    /\ exitCode' = Exited(0)
    /\ teardown' = [teardown EXCEPT !.signal = sig, !.destroyCalls = @ + 1,
                                    !.destroyThrew = threw]
    /\ httpOut' = NoOut
    /\ UNCHANGED << lastQRData, hist, reqs, rateDelay, initState, normVars, profileVars >>

Signals == {"SIGINT", "SIGTERM"}

TeardownInit ==
    [destroyCalls |-> 0, destroyThrew |-> FALSE, signal |-> "none"]

\* The process that runs the gateway.
GatewayProc == CHOOSE p \in Procs : TRUE

\* Line 123
USER_DATA_DIR == prof[GatewayProc].ret

\* GET /health, lines 201-210, with the default configuration of lines 15-21.
HealthResponse ==
    [status |-> 200,
     body |-> [ok |-> TRUE, headless |-> TRUE, clientId |-> DEFAULT_PROFILE_NAME,
               webCacheStrategy |-> "none", chromePath |-> Null,
               userDataDir |-> USER_DATA_DIR]]

GetHealth ==
    /\ exitCode = Running
    /\ httpOut' = [path |-> "/health", status |-> HealthResponse.status,
                   body |-> HealthResponse.body]
    /\ UNCHANGED << lastQRData, hist, reqs, rateDelay, exitCode, initState, teardown,
                    normVars, profileVars >>

RateDelayChoices == {0, 2}

InitGateway ==
    /\ lastQRData = Null
    /\ hist = HistInit
    /\ httpOut = NoOut
    /\ reqs = [r \in ReqIds |-> IdleReq]
    /\ exitCode = Running
    /\ initState = "initializing"
    /\ teardown = TeardownInit

InitNormIdle == normIn = Undef /\ normOut = NoResult

\* The filesystem and the resolver before any call is made.
InitProfileIdle ==
    /\ fs = [root |-> FALSE, locks |-> {}, alts |-> {}, altLocks |-> {}]
    /\ now = 0
    /\ prof = [p \in Procs |-> ProfStart]

\* The resolver has returned the default profile (line 123 runs before the
\* session and the HTTP server are set up).
InitProfileResolved ==
    /\ fs = [root |-> TRUE, locks |-> {}, alts |-> {}, altLocks |-> {}]
    /\ now = 0
    /\ prof = [p \in Procs |-> [ProfStart EXCEPT !.pc = "done", !.ret = BasePath]]

Init ==
    /\ InitGateway
    /\ rateDelay \in RateDelayChoices
    /\ InitNormIdle
    /\ InitProfileResolved

Next ==
    \/ \E qr \in QRCodes : EmitQr(qr)
    \/ EmitReady
    \/ EmitAuthFailure
    \/ EmitDisconnected
    \/ GetHealth
    \/ GetStatus
    \/ GetQr
    \/ \E r \in ReqIds, body \in SendBodies : PostSend(r, body)
    \/ \E r \in ReqIds, body \in FewBulkBodies : PostBulk(r, body)
    \/ \E r \in ReqIds, outcome \in Outcomes : SendSettled(r, outcome)
    \/ \E r \in ReqIds : TimerFire(r)
    \/ GatewayTick
    \/ \E r \in ReqIds : Close(r)
    \/ InitResolved
    \/ InitRejected
    \/ \E sig \in Signals, threw \in BOOLEAN : Shutdown(sig, threw)

Spec == Init /\ [][Next]_vars

\* The POST handlers alone, over every batch of up to MaxItems items.
NextPost ==
    \/ \E r \in ReqIds, body \in SendBodies : PostSend(r, body)
    \/ \E r \in ReqIds, body \in BulkBodies : PostBulk(r, body)
    \/ \E r \in ReqIds, outcome \in Outcomes : SendSettled(r, outcome)
    \/ \E r \in ReqIds : TimerFire(r)
    \/ GatewayTick
    \/ \E r \in ReqIds : Close(r)

SpecPost == Init /\ [][NextPost]_vars

\* Two requests in progress at a time: valid POST /send requests and batches
\* of valid items.
ConcIds == {1, 2}

ConcSendBodies == {[phone |-> Str(<< "+", "1" >>), message |-> Str(<< "hi" >>)]}

ConcBulkBodies == {[items |-> Arr(s)] : s \in UNION {[1..k -> {ItemA}] : k \in 1..MaxItems}}

InitConc ==
    /\ lastQRData = Null
    /\ hist = HistInit
    /\ httpOut = NoOut
    /\ reqs = [r \in ConcIds |-> IdleReq]
    /\ exitCode = Running
    /\ initState = "initializing"
    /\ teardown = TeardownInit
    /\ rateDelay \in RateDelayChoices
    /\ InitNormIdle
    /\ InitProfileResolved

NextConc ==
    \/ \E r \in ConcIds, body \in ConcSendBodies : PostSend(r, body)
    \/ \E r \in ConcIds, body \in ConcBulkBodies : PostBulk(r, body)
    \/ \E r \in ConcIds, outcome \in Outcomes : SendSettled(r, outcome)
    \/ \E r \in ConcIds : TimerFire(r)
    \/ GatewayTick

SpecConc == InitConc /\ [][NextConc]_vars

\* The POST handlers with the process start and end, under the scheduling of
\* the event loop: a timer that has run out fires and time goes on.  Nothing
\* makes the session layer settle a send.
NextLive ==
    \/ \E r \in ReqIds, body \in SendBodies : PostSend(r, body)
    \/ \E r \in ReqIds, body \in FewBulkBodies : PostBulk(r, body)
    \/ \E r \in ReqIds, outcome \in Outcomes : SendSettled(r, outcome)
    \/ \E r \in ReqIds : TimerFire(r)
    \/ GatewayTick
    \/ \E r \in ReqIds : Close(r)
    \/ InitResolved
    \/ InitRejected
    \/ \E sig \in Signals, threw \in BOOLEAN : Shutdown(sig, threw)

SpecLive ==
    /\ Init
    /\ [][NextLive]_vars
    /\ \A r \in ReqIds : WF_vars(TimerFire(r))
    /\ WF_vars(GatewayTick)

InitNorm ==
    /\ normIn \in PhoneInputs
    /\ normOut = NoResult
    /\ InitGateway
    /\ rateDelay = 0
    /\ InitProfileIdle

NextNorm == NormCall

SpecNorm == InitNorm /\ [][NextNorm]_vars

\* The process may start over any markers left in the default profile, stale
\* or held by a running browser.
InitProfile ==
    /\ \E locks \in SUBSET LockSet, root \in BOOLEAN :
          /\ (locks # {} => root)
          /\ fs = [root |-> root, locks |-> locks, alts |-> {}, altLocks |-> {}]
    /\ now = 0
    /\ prof = [p \in Procs |-> ProfStart]
    /\ InitGateway
    /\ rateDelay = 0
    /\ InitNormIdle

NextProfile ==
    \/ \E p \in Procs : PickEnsureRoot(p)
    \/ \E p \in Procs : PickCheck1(p)
    \/ \E p \in Procs : PickRemove(p)
    \/ \E p \in Procs : PickCheck2(p)
    \/ \E p \in Procs : PickAgain(p)
    \/ \E f \in LockSet : BrowserCreatesLock(f)
    \/ \E f \in LockSet : BrowserRemovesLock(f)
    \/ ClockTick

SpecProfile == InitProfile /\ [][NextProfile]_vars

\* Two gateway processes started over the same profiles root, in any
\* interleaving, each from its resolver call to the end of its browser.  The
\* default profile may hold the markers a killed instance left.
MultiProcs == {1, 2}

InitMulti ==
    /\ \E locks \in {{}, LockSet} :
          fs = [root |-> TRUE, locks |-> locks, alts |-> {}, altLocks |-> {}]
    /\ now = 0
    /\ prof = [p \in MultiProcs |-> ProfStart]
    /\ InitGateway
    /\ rateDelay = 0
    /\ InitNormIdle

NextMulti ==
    \/ \E p \in MultiProcs : PickEnsureRoot(p)
    \/ \E p \in MultiProcs : PickCheck1(p)
    \/ \E p \in MultiProcs : PickRemove(p)
    \/ \E p \in MultiProcs : PickCheck2(p)
    \/ \E p \in MultiProcs : InitClean(p)
    \/ \E p \in MultiProcs : Launch(p)
    \/ \E p \in MultiProcs : ProcExit(p)
    \/ ClockTick

SpecMulti == InitMulti /\ [][NextMulti]_vars

(***************************************************************************)
(* Properties of the session state and of the GET handlers.                *)
(***************************************************************************)
\* C1: provided every login code issued so far is non-empty, a GET /status
\* response has needQr:true exactly when a login code has been issued and no
\* ready event has occurred after the most recent one.
C1_NeedQrIffCodePending ==
    (httpOut.path = "/status" /\ hist.allNonEmpty)
        => (httpOut.body.needQr <=> (hist.lastCode # Null /\ ~hist.readyAfter))

\* GET /status answers needQr:true for a code issued after an earlier ready event.
C1_Witness ==
    /\ httpOut.path = "/status"
    /\ hist.allNonEmpty
    /\ hist.everReady
    /\ httpOut.body.needQr

\* C2: a GET /status answered before any session event reports needQr:false
\* and ready:false, and ready:true is reported only after a ready event.
C2_StartsNotReady ==
    httpOut.path = "/status"
        => /\ ~hist.anyEvent => (~httpOut.body.needQr /\ ~httpOut.body.ready)
           /\ httpOut.body.ready => hist.everReady

\* C3 as stated: GET /qr answers 404 no-qr exactly when no login code is
\* pending (none issued, or a ready event followed the last one), and
\* otherwise 200 with the most recently issued code.
C3_QrAsStated ==
    httpOut.path = "/qr"
        => LET noPending == hist.lastCode = Null \/ hist.readyAfter
           IN  /\ (httpOut.status = 404
                     /\ httpOut.body = [ok |-> FALSE, error |-> Str(<< "no-qr" >>)])
                   <=> noPending
               /\ ~noPending => (httpOut.status = 200 /\ httpOut.body.ok
                                   /\ httpOut.body.qr = hist.lastCode)

\* C3 amended: GET /qr answers 404 no-qr exactly when no non-empty login code
\* is pending (none issued, a ready event followed the last one, or the last
\* one issued is the empty string), and otherwise 200 with the most recently
\* issued code.
C3_QrNonEmptyPending ==
    httpOut.path = "/qr"
        => LET noPending == \/ hist.lastCode = Null
                            \/ hist.readyAfter
                            \/ hist.lastCode = Str(<< >>)
           IN  /\ (httpOut.status = 404
                     /\ httpOut.body = [ok |-> FALSE, error |-> Str(<< "no-qr" >>)])
                   <=> noPending
               /\ ~noPending => (httpOut.status = 200 /\ httpOut.body.ok
                                   /\ httpOut.body.qr = hist.lastCode)

\* GET /qr answers 200 with a code issued after an earlier, empty, one.
C3_Witness ==
    /\ httpOut.path = "/qr"
    /\ httpOut.status = 200
    /\ ~hist.allNonEmpty

(***************************************************************************)
(* Properties of POST /send and POST /bulk.                                *)
(***************************************************************************)
SendReqs == {r \in DOMAIN reqs : reqs[r].kind = "send"}
BulkReqs == {r \in DOMAIN reqs : reqs[r].kind = "bulk"}

\* The message is missing or empty.
NoMessage(body) == body.message = Undef \/ body.message = Str(<< >>)

\* C4: a POST /send whose message is missing or empty, or whose phone
\* normalizes to the empty string, is answered 400 and makes no session send.
C4_SendRejectsMissing ==
    \A r \in SendReqs :
        (NoMessage(reqs[r].body) \/ normPhone(reqs[r].body.phone) = << >>)
            => /\ reqs[r].pc = "responded"
               /\ reqs[r].status = 400
               /\ ~reqs[r].resp.ok
               /\ reqs[r].calls = << >>

\* A POST /send with a valid phone and no message has been answered 400.
C4_Witness ==
    \E r \in SendReqs :
        /\ reqs[r].status = 400
        /\ normPhone(reqs[r].body.phone) # << >>
        /\ reqs[r].body.message = Undef

\* C5: in every step in which the send awaited by a POST /send settles, the
\* handler answers 200 {ok:true} if the send resolved and 500 {ok:false,
\* error} if it rejected, and the process goes on running; a 200 is given
\* only for a resolved send.
C5_SendOutcomeDecidesResponse ==
    [][\A r \in DOMAIN reqs :
          (reqs[r].kind = "send" /\ reqs[r].pc = "awaitSend" /\ reqs'[r] # reqs[r])
              => LET q == reqs'[r]
                     outcome == q.outcomes[1]
                 IN  /\ q.pc = "responded"
                     /\ Len(q.outcomes) = 1
                     /\ outcome.ok => (q.status = 200 /\ q.resp = [ok |-> TRUE])
                     /\ ~outcome.ok => /\ q.status = 500
                                       /\ ~q.resp.ok
                                       /\ q.resp.error.t = "string"
                                       /\ q.resp.error.v # << >>
                     /\ exitCode' = Running]_vars

\* A POST /send has been answered 500 after its send rejected, the process running.
C5_Witness ==
    \E r \in SendReqs :
        /\ reqs[r].pc = "responded"
        /\ reqs[r].status = 500
        /\ reqs[r].outcomes # << >>
        /\ ~reqs[r].outcomes[1].ok
        /\ exitCode = Running

\* An item is invalid: empty normalized phone, or missing or empty message.
Invalid(it) == normPhone(it.phone) = << >> \/ NoMessage(it)

\* The number of valid items among the first i.
ValidUpTo(items, i) == Cardinality({j \in 1..i : ~Invalid(items[j])})

\* C6: a POST /bulk whose items are n objects is answered 200 with exactly n
\* results, entry i describing item i: an invalid item has ok:false and its
\* raw phone, a valid one its normalized phone and ok exactly if its send
\* resolved.
C6_BulkOneResultPerItem ==
    \A r \in BulkReqs :
        LET q == reqs[r]
            items == ItemsOf(q.body)
        IN  (q.pc = "responded" /\ \A i \in 1..Len(items) : items[i] # Null)
                => /\ q.status = 200
                   /\ q.resp.ok
                   /\ Len(q.resp.results) = Len(items)
                   /\ \A i \in 1..Len(items) :
                        LET e == q.resp.results[i]
                        IN  IF Invalid(items[i])
                            THEN ~e.ok /\ e.phone = items[i].phone
                            ELSE /\ e.phone = Str(normPhone(items[i].phone))
                                 /\ e.ok = q.outcomes[ValidUpTo(items, i)].ok

\* A batch of an invalid item and an item whose send failed has been answered.
C6_Witness ==
    \E r \in BulkReqs :
        /\ reqs[r].pc = "responded"
        /\ reqs[r].body.items = Arr(<< ItemNoPhone, ItemA >>)
        /\ ~reqs[r].outcomes[1].ok

\* C7: with a positive delay, each send of a batch after the first starts
\* only when the previous send has completed and the full delay has passed
\* since then, whether that send succeeded or failed.
C7_DelayBetweenSends ==
    \A r \in BulkReqs :
        rateDelay > 0
            => /\ Len(reqs[r].calls) <= Len(reqs[r].outcomes) + 1
               /\ \A k \in 2..Len(reqs[r].calls) : reqs[r].calls[k].gap >= rateDelay

(***************************************************************************)
(* Properties of normPhone.                                                *)
(***************************************************************************)
\* C8: normPhone returns the digits of its input, in order, without one
\* leading "00" (only one: "00001" gives "001"); the result holds digits
\* only, and a missing or empty input gives the empty string.
C8_NormPhone ==
    normOut # NoResult
        => LET digits == SelectSeq(normIn.v, IsDigit)
               expected == IF Len(digits) >= 2 /\ SubSeq(digits, 1, 2) = << "0", "0" >>
                           THEN SubSeq(digits, 3, Len(digits))
                           ELSE digits
           IN  /\ normOut = expected
               /\ \A i \in 1..Len(normOut) : normOut[i] \in Digits
               /\ (normIn = Undef \/ normIn = Str(<< >>)) => normOut = << >>
               /\ normIn = Str(<< "0", "0", "0", "0", "1" >>)
                    => normOut = << "0", "0", "1" >>

\* normPhone("00001") has returned "001".
C8_Witness ==
    /\ normIn = Str(<< "0", "0", "0", "0", "1" >>)
    /\ normOut = << "0", "0", "1" >>

(***************************************************************************)
(* Properties of pickProfileDir.                                           *)
(***************************************************************************)
\* C9: a call that finds neither marker in the default profile returns the
\* default path, removes no file and creates no alternate directory, and so
\* does every repetition of it: two successive calls that find no marker
\* return the same path.
C9_NoLocksReturnsDefault ==
    \A p \in Procs :
        (prof[p].pc = "done" /\ prof[p].seen1 = {})
            => /\ prof[p].ret = BasePath
               /\ prof[p].removed = {}
               /\ prof[p].made = {}
               /\ prof[p].prev.seen1 = {} => prof[p].ret = prof[p].prev.ret

\* A second call in a row has found no marker and returned the default path.
C9_Witness ==
    \E p \in Procs :
        /\ prof[p].pc = "done"
        /\ prof[p].calls = 2
        /\ prof[p].seen1 = {}
        /\ prof[p].prev.seen1 = {}
        /\ prof[p].ret = BasePath

\* C10: a call that finds a marker and still finds one after the removal
\* attempt returns a path other than the default one, and that path is a
\* directory of the filesystem at the return.
C10_RotatedPathExists ==
    \A p \in Procs :
        (prof[p].pc = "done" /\ prof[p].seen1 # {} /\ prof[p].seen2 # {})
            => /\ prof[p].ret # BasePath
               /\ AltExists(prof[p].ret)


(***************************************************************************)
(* Properties of the process start and end.                                *)
(***************************************************************************)
\* C12: a failed initialization ends the process with exit code 1 and is not
\* tried again (initState never comes back to "initializing", and an ended
\* process stays ended); a SIGINT or SIGTERM makes one call of
\* client.destroy() and ends the process with exit code 0, whether that call
\* threw or not.
C12_ExitCodes ==
    [][/\ initState' = "failed" => exitCode' = Exited(1)
       /\ initState # "initializing" => initState' = initState
       /\ exitCode # Running => exitCode' = exitCode
       /\ teardown'.signal # "none"
            => exitCode' = Exited(0) /\ teardown'.destroyCalls = 1
       /\ teardown'.signal = "none" => teardown'.destroyCalls = 0]_vars

\* A signal has ended the process with exit code 0 although client.destroy()
\* threw.
C12_Witness ==
    /\ teardown.signal = "SIGTERM"
    /\ teardown.destroyThrew
    /\ exitCode = Exited(0)

(***************************************************************************)
(* Further properties of GET /status and of the session state.             *)
(***************************************************************************)
\* C13: every GET /status response has ok:true and ready equal to the
\* negation of needQr.
C13_ReadyIsNotNeedQr ==
    httpOut.path = "/status"
        => /\ httpOut.body.ok
           /\ httpOut.body.ready = ~httpOut.body.needQr

\* GET /status has been answered while the pending login code is the empty
\* string.
C13_Witness ==
    /\ httpOut.path = "/status"
    /\ lastQRData = Str(<< >>)

\* C16: lastQRData changes only in a step of the qr or the ready event (so
\* not in an auth_failure or disconnected event nor in any step of an HTTP
\* handler), and a GET /status answered after ready followed by disconnected,
\* with no qr or ready event after it, reports ready:true.
C16_OnlyQrAndReadyChangeState ==
    [][/\ lastQRData' # lastQRData => (EmitReady \/ \E qr \in QRCodes : EmitQr(qr))
       /\ (httpOut'.path = "/status" /\ hist'.readyAfter /\ hist'.discAfter)
            => httpOut'.body.ready]_vars

\* GET /status has answered ready:true after ready followed by disconnected.
C16_Witness ==
    /\ httpOut.path = "/status"
    /\ hist.readyAfter
    /\ hist.discAfter
    /\ httpOut.body.ready

(***************************************************************************)
(* Further properties of POST /send and POST /bulk.                        *)
(***************************************************************************)
\* The items of a batch that get a send: objects with a non-empty normalized
\* phone and a non-empty message, in input order.
ValidItems(items) == SelectSeq(items, LAMBDA it : it # Null /\ ~Invalid(it))

CallSource(q, k) ==
    IF q.kind = "send" THEN q.body ELSE ValidItems(ItemsOf(q.body))[k]

\* C17: every send made by POST /send or POST /bulk has as destination the
\* normalized phone of its request or item, non-empty and of digits only,
\* followed by "@c.us", and a non-empty message; where the raw phone differs
\* from the normalized one, the destination is not built from the raw phone.
C17_SendsNormalizedPhone ==
    \A r \in DOMAIN reqs :
        \A k \in 1..Len(reqs[r].calls) :
            LET c == reqs[r].calls[k]
                raw == CallSource(reqs[r], k).phone
                n == normPhone(raw)
            IN  /\ c.dest = n \o << "@", "c", ".", "u", "s" >>
                /\ n # << >>
                /\ \A i \in 1..Len(n) : IsDigit(n[i])
                /\ c.message # << >>
                /\ ToString(raw) # n => c.dest # Dest(ToString(raw))

\* A send has been made for a request whose raw phone is "+1".
C17_Witness ==
    \E r \in SendReqs :
        /\ reqs[r].body.phone = Str(<< "+", "1" >>)
        /\ Len(reqs[r].calls) = 1
        /\ reqs[r].calls[1].dest = << "1", "@", "c", ".", "u", "s" >>

\* The body makes a valid POST /send.
ValidSend(body) == normPhone(body.phone) # << >> /\ ~NoMessage(body)

\* C20: GET /health and GET /status are answered, with 200, in every state
\* of a running process, and a valid POST /send arriving in any such state
\* (whatever initState and lastQRData are) goes straight to its call of the
\* session's send; its answer is 200 exactly if that send resolved.
C20_ServesBeforeReady ==
    /\ httpOut.path \in {"/health", "/status"} => httpOut.status = 200
    /\ exitCode = Running => ENABLED GetHealth /\ ENABLED GetStatus
    /\ \A r \in DOMAIN reqs, body \in SendBodies :
         (exitCode = Running /\ reqs[r].pc = "idle" /\ ValidSend(body))
             => ENABLED (PostSend(r, body) /\ reqs'[r].pc = "awaitSend"
                                           /\ Len(reqs'[r].calls) = 1)
    /\ \A r \in SendReqs :
         (reqs[r].pc = "responded" /\ reqs[r].calls # << >>)
             => (reqs[r].status = 200 <=> reqs[r].outcomes[1].ok)

\* While the initialization is in progress and a login code is pending, GET
\* /health has been answered and a POST /send is awaiting its send.
C20_Witness ==
    /\ initState = "initializing"
    /\ Truthy(lastQRData)
    /\ httpOut.path = "/health"
    /\ \E r \in SendReqs : reqs[r].pc = "awaitSend"


(***************************************************************************)
(* Properties of requests in progress at the same time.                    *)
(***************************************************************************)
\* C15: the sends of different requests are not mutually excluded.  Whatever
\* another request is doing (awaiting a send, or a batch waiting for its
\* pacing delay), a valid POST /send that arrives makes its send at once, so
\* that two sends are in flight where the other request awaits one; and a
\* send in flight can complete while a batch is between two items, the batch
\* staying where it is.
C15_SendsNotExcluded ==
    \A r \in DOMAIN reqs, o \in DOMAIN reqs :
        r # o =>
            /\ (reqs[r].pc = "idle" /\ reqs[o].pc \in {"awaitSend", "delay"})
                 => \A body \in ConcSendBodies :
                       ENABLED (/\ PostSend(r, body)
                                /\ reqs'[r].pc = "awaitSend"
                                /\ reqs'[o] = reqs[o])
            /\ (reqs[r].kind = "send" /\ reqs[r].pc = "awaitSend" /\ reqs[o].pc = "delay")
                 => ENABLED (/\ SendSettled(r, Resolved)
                             /\ reqs'[r].status = 200
                             /\ reqs'[o] = reqs[o])

\* A POST /send made its send while a batch had its first send in flight,
\* and was answered 200 before the batch made its second send.
C15_Witness ==
    \E b \in BulkReqs, s \in SendReqs :
        /\ Len(reqs[b].calls) = 2
        /\ reqs[s].pc = "responded"
        /\ reqs[s].status = 200
        /\ b \in reqs[s].calls[1].busy
        /\ reqs[s].calls[1].seen[b] = 0
        /\ reqs[b].calls[1].seen[s] = 0
        /\ reqs[b].calls[2].seen[s] = 1


(***************************************************************************)
(* Properties of the answers of POST /send and POST /bulk.                 *)
(***************************************************************************)
\* The request has made a send or is in its pacing delay, and is not answered.
Pending(r) == reqs[r].pc \in {"awaitSend", "delay"}

\* An answered request gets no second answer, and a request that awaits a
\* send moves on only when that send settles.
OneAnswerAndOnlyAfterSend ==
    \A r \in DOMAIN reqs :
        /\ reqs[r].pc = "responded" => (reqs'[r] = reqs[r] \/ reqs'[r] = IdleReq)
        /\ (reqs[r].pc = "awaitSend" /\ reqs'[r] # reqs[r])
             => \E outcome \in Outcomes : SendSettled(r, outcome)

\* C19 as stated: every request is answered exactly once, and is answered
\* eventually if every send it awaits eventually completes; a request whose
\* send never completes is never answered.
C19_AnsweredOnce ==
    /\ [][OneAnswerAndOnlyAfterSend]_vars
    /\ (\A r \in ReqIds : (reqs[r].pc = "awaitSend") ~> (reqs[r].pc # "awaitSend"))
         => (\A r \in ReqIds : Pending(r) ~> (reqs[r].pc = "responded"))

\* C19 amended: the same, as long as the process runs: a request is answered
\* eventually if every send it awaits eventually completes, unless a signal or
\* a failed initialization ends the process first.
C19_AnsweredOnceWhileRunning ==
    /\ [][OneAnswerAndOnlyAfterSend]_vars
    /\ (\A r \in ReqIds : (reqs[r].pc = "awaitSend") ~> (reqs[r].pc # "awaitSend"))
         => (\A r \in ReqIds :
                Pending(r) ~> (reqs[r].pc = "responded" \/ exitCode # Running))

\* A batch has been answered after two sends with the pacing delay between
\* them, the process running.
C19_Witness ==
    \E r \in BulkReqs :
        /\ reqs[r].pc = "responded"
        /\ Len(reqs[r].outcomes) = 2
        /\ rateDelay > 0
        /\ exitCode = Running


(***************************************************************************)
(* Properties of several gateway processes over one profiles root.         *)
(***************************************************************************)
\* The processes whose browser runs on the profile directory path.
LiveOn(path) == {p \in DOMAIN prof : prof[p].pc = "live" /\ prof[p].ret = path}

\* C11: at most one live session uses the default profile path at a time.
C11_OneLiveOnDefault == Cardinality(LiveOn(BasePath)) <= 1

\* C18: in the step in which pickProfileDir returns a path to a process, that
\* path holds no marker of the running browser of another process.
C18_ReturnedPathNotLocked ==
    [][\A p \in DOMAIN prof :
          (prof[p].pc # "done" /\ prof'[p].pc = "done")
              => \/ LocksAt(fs', prof'[p].ret) = {}
                 \/ LiveOn(prof'[p].ret) \ {p} = {}]_vars

====
